---- MODULE Spec2Model ----
(***************************************************************************)
(* A model of port_scanner.py: the port partitioner divide_ports, the      *)
(* connect probe PortScanner.scan_port, the batch scanner                  *)
(* PortScanner.scan_ports (inner thread pool) and the engine               *)
(* NetworkScanner.scan_network (outer process pool and aggregation).       *)
(***************************************************************************)
EXTENDS Integers, Sequences, FiniteSets

VARIABLES
    pc,               \* where the caller is: "main", "call", "loop", "done", "error"
    reported,         \* how often main's except clause has logged "An error occurred"
    ip_range,         \* NetworkScanner.ip_range
    ports,            \* the flat port list handed to divide_ports
    num_chunks,       \* divide_ports' num_chunks argument
    port_ranges,      \* the chunks handed to scan_network
    num_processes,    \* size of the outer ProcessPoolExecutor
    max_workers,      \* size of each inner ThreadPoolExecutor
    units,            \* scan_network's futures, in submission order: <<ip, port_range>>
    ustate,           \* per unit: "queued", "running", "raising", "returned", "failed"
    pstate,           \* per unit, per probe: "unsubmitted", "queued", "running", "done"
    future,           \* per unit, per probe: what the probe's future holds
    nxt,              \* per unit: position of scan_ports' retrieval loop
    open_ports,       \* per unit: scan_ports' local open_ports list
    errors,           \* per unit: scan_ports' local errors list
    added,            \* per unit, per probe: the entries its retrieval appended
    aidx,             \* position of scan_network's aggregation loop
    open_ports_dict,  \* scan_network's open_ports_dict
    errors_dict,      \* scan_network's errors_dict
    sockets,          \* per unit: the sockets its probes hold open
    completed         \* per unit: the probe positions in the order their futures completed

vars == << pc, ip_range, ports, num_chunks, port_ranges, num_processes, max_workers,
           units, ustate, pstate, future, nxt, open_ports, errors, added, aidx,
           open_ports_dict, errors_dict, reported, sockets, completed >>

\* ------------------------------------------------------------------ bounds
\* Port lists handed to divide_ports alone (specification SpecDiv).
DivMaxLen == 5
DivMaxPort == 5
DivMaxChunks == 6
\* Ports, chunk counts and pool sizes of a whole scan (specification Spec).
MaxPort == 2
MaxChunks == 2
MaxProcesses == 2
MaxWorkers == 2
\* Ports of one batch (specification SpecBatch).
BatchMaxLen == 3

\* ------------------------------------------------------------ small helpers
Min(a, b) == IF a < b THEN a ELSE b

Range(s) == {s[i] : i \in 1..Len(s)}

SeqsUpTo(S, n) == UNION {[1..k -> S] : k \in 1..n}

\* Python's s[a:b] for 0 <= a, with both ends clamped to len(s).
Slice(s, a, b) == SubSeq(s, Min(a, Len(s)) + 1, Min(b, Len(s)))

RECURSIVE Concat(_)
Concat(ss) == IF ss = <<>> THEN <<>> ELSE Head(ss) \o Concat(Tail(ss))

\* How many positions of s hold x.
Count(s, x) == Cardinality({i \in 1..Len(s) : s[i] = x})

\* ------------------------------------------------------------- divide_ports
\* A divide_ports that clamps the chunk count to at least 1.
ClampChunksAtLeastOne(P, n) ==
    IF n > Len(P) THEN (IF Len(P) = 0 THEN 1 ELSE Len(P)) ELSE n

\* A divide_ports that does not clamp the chunk count.
ClampChunksNone(P, n) == n

\* if num_chunks > len(ports): num_chunks = len(ports)
ClampChunks(P, n) == IF n > Len(P) THEN Len(P) ELSE n

\* chunk_size = len(ports) // num_chunks
ChunkSize(P, n) == Len(P) \div ClampChunks(P, n)

\* A divide_ports that forgets the remainder.
TrailingChunksNone(P, n) == << >>

\* The list the trailing "+ [ports[num_chunks * chunk_size:]]" appends.
TrailingChunks(P, n) ==
    << Slice(P, ClampChunks(P, n) * ChunkSize(P, n), Len(P)) >>

\* [ports[i*size:(i+1)*size] for i in range(num_chunks)] + [ports[num_chunks*size:]]
divide_ports(P, n) ==
    [i \in 1..ClampChunks(P, n) |->
        Slice(P, (i - 1) * ChunkSize(P, n), i * ChunkSize(P, n))]
    \o TrailingChunks(P, n)

\* ------------------------------------------------------------------ scan_port
\* Python's None, and the truth value "if error:" gives a returned error.
None == "None"
Truthy(error) == error /= None /\ error /= ""

\* The messages str(e) of a fault; the empty string is str(Exception()).
Messages == {"", "unreachable"}

\* What scanner.connect((ip, port)) does: it returns, or it raises
\* ConnectionRefusedError, socket.timeout or some other exception e.
ConnectOutcomes ==
    {[kind |-> "connected", msg |-> None], [kind |-> "refused", msg |-> None],
     [kind |-> "timeout", msg |-> None]}
    \cup {[kind |-> "fault", msg |-> m] : m \in Messages}

\* The value scan_port returns after connect ended with outcome o: <<is_open, error>>.
scan_port(o) ==
    CASE o.kind = "connected" -> << TRUE, None >>
      [] o.kind \in {"refused", "timeout"} -> << FALSE, None >>
      [] OTHER -> << FALSE, o.msg >>

\* A scan_port that closes the socket after the except clauses instead of in a
\* finally clause: an unexpected exception leaves the socket open.
AfterCloseNoFinally(n, o) == IF o.kind = "fault" THEN n ELSE n - 1

\* finally: scanner.close() -- the sockets left open, of n, once connect has
\* ended with outcome o.
AfterClose(n, o) == n - 1

\* A future of the inner pool: not done, done with scan_port's return value, or
\* done with the exception the worker raised (socket.socket() failing, outside
\* the try block).
NoFuture == [done |-> FALSE]
Returned(o) == [done |-> TRUE, raised |-> FALSE, val |-> scan_port(o)]
Raised(m) == [done |-> TRUE, raised |-> TRUE, exc |-> m]

\* ----------------------------------------------------------------- scan_ports
\* A retrieval loop that puts an open port at the front of the list.
AppendOpenPrepends(lst, port, f) ==
    IF ~f.raised /\ f.val[1] THEN << port >> \o lst ELSE lst

\* One pass of the retrieval loop over the future f of `port`:
\*   is_open, error = future.result(); if is_open: open_ports.append(port)
AppendOpen(lst, port, f) ==
    IF ~f.raised /\ f.val[1] THEN Append(lst, port) ELSE lst

\* A retrieval loop whose except clause logs the exception and records nothing.
AppendErrorsUnrecorded(lst, port, f) ==
    IF ~f.raised /\ Truthy(f.val[2]) THEN Append(lst, << port, f.val[2] >>) ELSE lst

\*   if error: errors.append((port, error))
\*   except Exception as e: errors.append((port, str(e)))
AppendErrors(lst, port, f) ==
    IF f.raised THEN Append(lst, << port, f.exc >>)
    ELSE IF Truthy(f.val[2]) THEN Append(lst, << port, f.val[2] >>)
    ELSE lst

\* --------------------------------------------------------------- scan_network
\* ipaddress.ip_network(ip_range).hosts(), as strings, for the ranges modelled.
IpRanges == {"127.0.0.1/32", "10.0.0.0/30"}

\* A range ip_network rejects: host bits are set (strict parsing).
BadRanges == {"10.0.0.1/30"}

\* A parse that accepts a range with host bits set (strict=False).
ParseRaisesNever(r) == FALSE

\* network = ipaddress.ip_network(self.ip_range) raises ValueError.
ParseRaises(r) == r \in BadRanges

Hosts(r) ==
    IF r = "127.0.0.1/32" THEN << "127.0.0.1" >> ELSE << "10.0.0.1", "10.0.0.2" >>

\* The keys of the futures dict, in insertion order:
\*   (str(ip), port_range) for ip in network.hosts() for port_range in port_ranges
UnitsOf(hs, prs) ==
    [u \in 1..(Len(hs) * Len(prs)) |->
        << hs[((u - 1) \div Len(prs)) + 1], prs[((u - 1) % Len(prs)) + 1] >>]

EmptyDict == [h \in {} |-> << >>]

\* An aggregation that assigns the unit's list instead of extending the entry.
ExtendOverwrites(d, ip, items) ==
    [h \in DOMAIN d \cup {ip} |-> IF h = ip THEN items ELSE d[h]]

\* An aggregation that puts the unit's list in front of the entry.
ExtendPrepends(d, ip, items) ==
    [h \in DOMAIN d \cup {ip} |->
        IF h = ip THEN items \o (IF ip \in DOMAIN d THEN d[ip] ELSE << >>) ELSE d[h]]

\* if ip not in d: d[ip] = []; d[ip].extend(items)
Extend(d, ip, items) ==
    [h \in DOMAIN d \cup {ip} |->
        IF h = ip THEN (IF ip \in DOMAIN d THEN d[ip] ELSE << >>) \o items ELSE d[h]]

\* An aggregation without the "if open_ports:" test.
AggregateOpenUnguarded(d, ip, returned, lst) ==
    IF returned THEN Extend(d, ip, lst) ELSE d

\* One pass of the aggregation loop over a unit of host ip whose future either
\* returned (open_ports, errors) or raised:
\*   if open_ports: ... open_ports_dict[ip].extend(open_ports)
AggregateOpen(d, ip, returned, lst) ==
    IF returned /\ lst /= << >> THEN Extend(d, ip, lst) ELSE d

\* An aggregation without the "if errors:" test.
AggregateErrorsUnguarded(d, ip, returned, lst) ==
    IF returned THEN Extend(d, ip, lst) ELSE d

\*   if errors: ... errors_dict[ip].extend(errors)
AggregateErrors(d, ip, returned, lst) ==
    IF returned /\ lst /= << >> THEN Extend(d, ip, lst) ELSE d

\* An aggregation loop without the except clause: the exception of a failed unit
\* leaves the loop and scan_network.
LoopAfterUncaught(returned) == IF returned THEN "loop" ELSE "raised"

\* The position the aggregation loop is left at after one pass: result() raising
\* is caught by "except Exception" and logged, so the loop goes on either way.
LoopAfter(returned) == "loop"

NU == Len(units)

\* An aggregation that files every result under the host of the first unit.
UnitIpStale(u) == units[1][1]

\* ip, port_range = futures[future]
UnitIp(u) == units[u][1]
Chunk(u) == units[u][2]
K(u) == Len(Chunk(u))

\* A retrieval loop that returns at the first error it records.
LoopOverAtFirstError(u) == nxt[u] = K(u) + 1 \/ errors[u] /= << >>

\* scan_ports' "for future in futures" has passed every future of unit u.
LoopOver(u) == nxt[u] = K(u) + 1

\* Leaving scan_ports' "with ThreadPoolExecutor" block waits for every submitted
\* probe of unit u (shutdown(wait=True)).
PoolIdle(u) == \A i \in 1..K(u) : pstate[u][i] \in {"unsubmitted", "done"}

\* An aggregation loop that does not wait for the unit.
UnitDoneNoWait(u) == TRUE

\* future.result() of unit u in scan_network blocks until the unit has returned
\* or raised.
UnitDone(u) == ustate[u] \in {"returned", "failed"}

\* Units holding a worker process, probes of unit u holding a worker thread.
BusyUnits == {u \in 1..NU : ustate[u] \in {"running", "raising"}}
BusyProbes(u) == {i \in 1..K(u) : pstate[u][i] = "running"}

\* ---------------------------------------------------------------------- steps
\* main: port_ranges = divide_ports(ports, num_chunks)
Divide ==
    /\ pc = "main"
    /\ ClampChunks(ports, num_chunks) /= 0
    /\ port_ranges' = divide_ports(ports, num_chunks)
    /\ pc' = "call"
    /\ UNCHANGED << ip_range, ports, num_chunks, num_processes, max_workers, units,
                    ustate, pstate, future, nxt, open_ports, errors, added, aidx,
                    open_ports_dict, errors_dict,
                    reported, sockets, completed >>

\* main: divide_ports divides by a chunk count clamped to 0 (ZeroDivisionError,
\* line 179); main's except clause logs it and main ends.
DivideRaises ==
    /\ pc = "main"
    /\ ClampChunks(ports, num_chunks) = 0
    /\ pc' = "error"
    /\ reported' = reported + 1
    /\ UNCHANGED << ip_range, ports, num_chunks, port_ranges, num_processes,
                    max_workers, units, ustate, pstate, future, nxt, open_ports, errors,
                    added, aidx, open_ports_dict, errors_dict, sockets, completed >>

\* scan_network: ipaddress.ip_network(self.ip_range) raises ValueError; nothing
\* has been submitted, main's except clause logs it and main ends.
SetupRaises ==
    /\ pc = "call"
    /\ ParseRaises(ip_range)
    /\ pc' = "error"
    /\ reported' = reported + 1
    /\ UNCHANGED << ip_range, ports, num_chunks, port_ranges, num_processes,
                    max_workers, units, ustate, pstate, future, nxt, open_ports, errors,
                    added, aidx, open_ports_dict, errors_dict, sockets, completed >>

\* scan_network up to the loop: the range is parsed, both dicts are created and
\* one unit per (host, chunk) is submitted to the outer pool.
Submit ==
    /\ pc = "call"
    /\ ~ParseRaises(ip_range)
    /\ units' = UnitsOf(Hosts(ip_range), port_ranges)
    /\ ustate' = [u \in DOMAIN units' |-> "queued"]
    /\ pstate' = [u \in DOMAIN units' |-> [i \in 1..Len(units'[u][2]) |-> "unsubmitted"]]
    /\ future' = [u \in DOMAIN units' |-> [i \in 1..Len(units'[u][2]) |-> NoFuture]]
    /\ added' = [u \in DOMAIN units' |->
                    [i \in 1..Len(units'[u][2]) |-> [open |-> 0, error |-> 0]]]
    /\ nxt' = [u \in DOMAIN units' |-> 1]
    /\ open_ports' = [u \in DOMAIN units' |-> << >>]
    /\ errors' = [u \in DOMAIN units' |-> << >>]
    /\ aidx' = 1
    /\ open_ports_dict' = EmptyDict
    /\ errors_dict' = EmptyDict
    /\ sockets' = [u \in DOMAIN units' |-> 0]
    /\ completed' = [u \in DOMAIN units' |-> << >>]
    /\ pc' = "loop"
    /\ UNCHANGED << ip_range, ports, num_chunks, port_ranges, num_processes, max_workers,
                    reported >>

\* An outer pool that starts a process for every queued unit.
CanStartUnbounded(u) ==
    /\ pc = "loop"
    /\ u \in 1..NU
    /\ ustate[u] = "queued"
    /\ \A v \in 1..(u - 1) : ustate[v] /= "queued"

\* A worker process is free and takes the oldest queued unit.
CanStart(u) ==
    /\ pc = "loop"
    /\ u \in 1..NU
    /\ ustate[u] = "queued"
    /\ \A v \in 1..(u - 1) : ustate[v] /= "queued"
    /\ Cardinality(BusyUnits) < num_processes

\* _scan_ip -> scan_ports: the inner pool is created and every port is submitted.
UnitStart(u) ==
    /\ CanStart(u)
    /\ ustate' = [ustate EXCEPT ![u] = "running"]
    /\ pstate' = [pstate EXCEPT ![u] = [i \in 1..K(u) |-> "queued"]]
    /\ UNCHANGED << pc, ip_range, ports, num_chunks, port_ranges, num_processes,
                    max_workers, units, future, nxt, open_ports, errors, added, aidx,
                    open_ports_dict, errors_dict,
                    reported, sockets, completed >>

\* scan_ports, the f-th executor.submit raises (no thread can be started): the
\* ports before it are submitted, the retrieval loop is never entered.
UnitSubmitRaises(u, f) ==
    /\ CanStart(u)
    /\ f \in 1..K(u)
    /\ ustate' = [ustate EXCEPT ![u] = "raising"]
    /\ pstate' = [pstate EXCEPT ![u] =
                    [i \in 1..K(u) |-> IF i < f THEN "queued" ELSE "unsubmitted"]]
    /\ UNCHANGED << pc, ip_range, ports, num_chunks, port_ranges, num_processes,
                    max_workers, units, future, nxt, open_ports, errors, added, aidx,
                    open_ports_dict, errors_dict,
                    reported, sockets, completed >>

\* An inner pool that keeps one of its threads back.
CanProbeOneShort(u, i) ==
    /\ u \in 1..NU
    /\ ustate[u] \in {"running", "raising"}
    /\ i \in 1..K(u)
    /\ pstate[u][i] = "queued"
    /\ \A j \in 1..(i - 1) : pstate[u][j] /= "queued"
    /\ Cardinality(BusyProbes(u)) < max_workers - 1

\* A worker thread of unit u is free and takes its oldest queued probe.
CanProbe(u, i) ==
    /\ u \in 1..NU
    /\ ustate[u] \in {"running", "raising"}
    /\ i \in 1..K(u)
    /\ pstate[u][i] = "queued"
    /\ \A j \in 1..(i - 1) : pstate[u][j] /= "queued"
    /\ Cardinality(BusyProbes(u)) < max_workers

\* scan_port: the socket is created and connect is under way.
ProbeStart(u, i) ==
    /\ CanProbe(u, i)
    /\ pstate' = [pstate EXCEPT ![u][i] = "running"]
    /\ sockets' = [sockets EXCEPT ![u] = @ + 1]
    /\ UNCHANGED << pc, ip_range, ports, num_chunks, port_ranges, num_processes,
                    max_workers, units, ustate, future, nxt, open_ports, errors, added,
                    aidx, open_ports_dict, errors_dict, reported, completed >>

\* scan_port: socket.socket() raises before the try block; the future holds the
\* exception.
ProbeRaises(u, i, m) ==
    /\ CanProbe(u, i)
    /\ pstate' = [pstate EXCEPT ![u][i] = "done"]
    /\ future' = [future EXCEPT ![u][i] = Raised(m)]
    /\ completed' = [completed EXCEPT ![u] = Append(@, i)]
    /\ UNCHANGED << pc, ip_range, ports, num_chunks, port_ranges, num_processes,
                    max_workers, units, ustate, nxt, open_ports, errors, added, aidx,
                    open_ports_dict, errors_dict,
                    reported, sockets >>

\* scan_port: connect ends with outcome o, the socket is closed, the value is
\* returned.
ProbeEnd(u, i, o) ==
    /\ u \in 1..NU
    /\ i \in 1..K(u)
    /\ pstate[u][i] = "running"
    /\ pstate' = [pstate EXCEPT ![u][i] = "done"]
    /\ future' = [future EXCEPT ![u][i] = Returned(o)]
    /\ sockets' = [sockets EXCEPT ![u] = AfterClose(@, o)]
    /\ completed' = [completed EXCEPT ![u] = Append(@, i)]
    /\ UNCHANGED << pc, ip_range, ports, num_chunks, port_ranges, num_processes,
                    max_workers, units, ustate, nxt, open_ports, errors, added, aidx,
                    open_ports_dict, errors_dict, reported >>

\* A scan_ports whose result lists are one object shared by all units.
WriteShared(lists, u, new) == [v \in DOMAIN lists |-> new]

\* open_ports = []; errors = []: the lists are locals of the call, so an append
\* changes the list of unit u alone.
WriteLocal(lists, u, new) == [lists EXCEPT ![u] = new]

\* scan_ports: one pass of "for future in futures", which waits for the future
\* at the loop's position.
Retrieve(u) ==
    /\ u \in 1..NU
    /\ ustate[u] = "running"
    /\ nxt[u] <= K(u)
    /\ future[u][nxt[u]].done
    /\ open_ports' = WriteLocal(open_ports, u,
                        AppendOpen(open_ports[u], Chunk(u)[nxt[u]], future[u][nxt[u]]))
    /\ errors' = WriteLocal(errors, u,
                    AppendErrors(errors[u], Chunk(u)[nxt[u]], future[u][nxt[u]]))
    /\ added' = [added EXCEPT ![u][nxt[u]] =
                    [open |-> Len(open_ports'[u]) - Len(open_ports[u]),
                     error |-> Len(errors'[u]) - Len(errors[u])]]
    /\ nxt' = [nxt EXCEPT ![u] = @ + 1]
    /\ UNCHANGED << pc, ip_range, ports, num_chunks, port_ranges, num_processes,
                    max_workers, units, ustate, pstate, future, aidx, open_ports_dict,
                    errors_dict,
                    reported, sockets, completed >>

\* scan_ports: the loop is over, the pool is shut down, (open_ports, errors) is
\* returned and becomes the result of the unit's future.
UnitReturn(u) ==
    /\ u \in 1..NU
    /\ ustate[u] = "running"
    /\ LoopOver(u)
    /\ PoolIdle(u)
    /\ ustate' = [ustate EXCEPT ![u] = "returned"]
    /\ UNCHANGED << pc, ip_range, ports, num_chunks, port_ranges, num_processes,
                    max_workers, units, pstate, future, nxt, open_ports, errors, added,
                    aidx, open_ports_dict, errors_dict,
                    reported, sockets, completed >>

\* scan_ports after a failed submit: leaving the with block waits for the probes
\* submitted so far, then the exception becomes the result of the unit's future.
UnitRaise(u) ==
    /\ u \in 1..NU
    /\ ustate[u] = "raising"
    /\ PoolIdle(u)
    /\ ustate' = [ustate EXCEPT ![u] = "failed"]
    /\ UNCHANGED << pc, ip_range, ports, num_chunks, port_ranges, num_processes,
                    max_workers, units, pstate, future, nxt, open_ports, errors, added,
                    aidx, open_ports_dict, errors_dict,
                    reported, sockets, completed >>

\* scan_network: one pass of "for future in futures", which waits for the unit
\* at the loop's position.
Aggregate ==
    /\ pc = "loop"
    /\ aidx <= NU
    /\ UnitDone(aidx)
    /\ open_ports_dict' = AggregateOpen(open_ports_dict, UnitIp(aidx),
                                        ustate[aidx] = "returned", open_ports[aidx])
    /\ errors_dict' = AggregateErrors(errors_dict, UnitIp(aidx),
                                      ustate[aidx] = "returned", errors[aidx])
    /\ aidx' = aidx + 1
    /\ pc' = LoopAfter(ustate[aidx] = "returned")
    /\ UNCHANGED << ip_range, ports, num_chunks, port_ranges, num_processes,
                    max_workers, units, ustate, pstate, future, nxt, open_ports, errors,
                    added,
                    reported, sockets, completed >>

\* scan_network: the loop is over, the outer pool is shut down, both dicts are
\* returned.
Return ==
    /\ pc = "loop"
    /\ aidx = NU + 1
    /\ pc' = "done"
    /\ UNCHANGED << ip_range, ports, num_chunks, port_ranges, num_processes,
                    max_workers, units, ustate, pstate, future, nxt, open_ports, errors,
                    added, aidx, open_ports_dict, errors_dict,
                    reported, sockets, completed >>

\* ------------------------------------------------------------- specifications
NoScan ==
    /\ units = << >>
    /\ ustate = << >>
    /\ pstate = << >>
    /\ future = << >>
    /\ nxt = << >>
    /\ open_ports = << >>
    /\ errors = << >>
    /\ added = << >>
    /\ aidx = 0
    /\ open_ports_dict = EmptyDict
    /\ errors_dict = EmptyDict
    /\ sockets = << >>
    /\ completed = << >>
    /\ reported = 0

\* main, for an input "start:end": ports = list(range(port_start, port_end + 1));
\* the list is empty when start > end.
PortRange(a, b) == [i \in 1..(b - a + 1) |-> a + i - 1]

\* A whole scan: a port list is divided and the chunks are scanned over a range.
Init ==
    /\ pc = "main"
    /\ ip_range \in IpRanges \cup BadRanges
    /\ ports \in {PortRange(a, b) : a \in 1..MaxPort, b \in 1..MaxPort}
    /\ num_chunks \in 1..MaxChunks
    /\ num_processes \in 1..MaxProcesses
    /\ max_workers \in 1..MaxWorkers
    /\ port_ranges = << >>
    /\ NoScan

Scan ==
    \/ Submit
    \/ \E u \in 1..NU : UnitStart(u)
    \/ \E u \in 1..NU : \E f \in 1..K(u) : UnitSubmitRaises(u, f)
    \/ \E u \in 1..NU : \E i \in 1..K(u) : ProbeStart(u, i)
    \/ \E u \in 1..NU : \E i \in 1..K(u) : \E m \in Messages : ProbeRaises(u, i, m)
    \/ \E u \in 1..NU : \E i \in 1..K(u) : \E o \in ConnectOutcomes : ProbeEnd(u, i, o)
    \/ \E u \in 1..NU : Retrieve(u)
    \/ \E u \in 1..NU : UnitReturn(u)
    \/ \E u \in 1..NU : UnitRaise(u)
    \/ Aggregate
    \/ Return

Next == Divide \/ DivideRaises \/ SetupRaises \/ Scan

Spec == Init /\ [][Next]_vars

\* A whole scan of one host under fair scheduling: a step that can be taken (a
\* free worker taking queued work, a connect ending within its timeout, a loop
\* pass whose future is done) is eventually taken.
InitLive ==
    /\ pc = "main"
    /\ ip_range = "127.0.0.1/32"
    /\ ports \in {PortRange(a, MaxPort) : a \in 1..MaxPort}
    /\ num_chunks \in 1..MaxChunks
    /\ num_processes \in 1..MaxProcesses
    /\ max_workers \in 1..MaxWorkers
    /\ port_ranges = << >>
    /\ NoScan

NextLive == Divide \/ Scan

SpecLive == InitLive /\ [][NextLive]_vars /\ WF_vars(NextLive)

\* divide_ports alone, over longer port lists.
InitDiv ==
    /\ pc = "main"
    /\ ip_range = "127.0.0.1/32"
    /\ ports \in SeqsUpTo(1..DivMaxPort, DivMaxLen)
    /\ num_chunks \in 1..DivMaxChunks
    /\ num_processes = 1
    /\ max_workers = 1
    /\ port_ranges = << >>
    /\ NoScan

NextDiv == Divide

SpecDiv == InitDiv /\ [][NextDiv]_vars

\* One batch: scan_network over a single host and the single chunk `ports`, so
\* that its only unit is one call of scan_ports.
InitBatch ==
    /\ pc = "call"
    /\ ip_range = "127.0.0.1/32"
    /\ ports \in SeqsUpTo(1..MaxPort, BatchMaxLen)
    /\ num_chunks = 1
    /\ num_processes = 1
    /\ max_workers \in 1..MaxWorkers
    /\ port_ranges = << ports >>
    /\ NoScan

NextBatch == Scan

SpecBatch == InitBatch /\ [][NextBatch]_vars

\* --------------------------------------------------------------- divide_ports
\* C1: once divide_ports has returned, the chunks concatenated in emitted order
\* are the port list itself: no port is lost, duplicated or moved.
C1_PartitionComplete ==
    pc = "call" => Concat(port_ranges) = ports

\* A division with a remainder: five ports in two chunks of two and one of one.
C1_Witness ==
    /\ pc = "call"
    /\ Len(ports) = 5
    /\ ports[1] = ports[5]
    /\ Len(port_ranges) = 3
    /\ Len(port_ranges[3]) = 1

Dropped(u) == {i \in 1..K(u) : added[u][i] = [open |-> 0, error |-> 0]}

\* C3: when scan_ports has returned, every one of the k port occurrences has been
\* probed and its future retrieved, each retrieval appended at most one entry
\* (never an open entry and an error entry), and open + errors + dropped = k.
C3_BatchComplete ==
    \A u \in 1..NU :
        ustate[u] = "returned" =>
            /\ Len(future[u]) = K(u)
            /\ \A i \in 1..K(u) : pstate[u][i] = "done" /\ future[u][i].done
            /\ nxt[u] = K(u) + 1
            /\ \A i \in 1..K(u) : added[u][i].open + added[u][i].error = 1
                                    \/ i \in Dropped(u)
            /\ Len(open_ports[u]) + Len(errors[u]) + Cardinality(Dropped(u)) = K(u)

\* A returned batch of three ports, one of them twice, through a pool of one
\* thread, whose first probe errored and which still found an open port and
\* dropped a closed one.
C3_Witness ==
    /\ NU = 1
    /\ ustate[1] = "returned"
    /\ max_workers = 1
    /\ K(1) = 3
    /\ Chunk(1)[1] = Chunk(1)[2]
    /\ added[1][1].error = 1
    /\ Len(open_ports[1]) = 1
    /\ Cardinality(Dropped(1)) = 1

\* The classification of a retrieved future: scan_port returned (True, None),
\* (False, None) or (False, message).
IsOpen(f) == f.done /\ ~f.raised /\ f.val[1]
IsClosed(f) == f.done /\ ~f.raised /\ ~f.val[1] /\ f.val[2] = None
IsErrored(f) == f.done /\ ~f.raised /\ ~f.val[1] /\ f.val[2] /= None

\* C4: a retrieved Open probe adds its port to open_ports and nothing to errors,
\* a Closed one adds nothing, an Errored one adds exactly one (port, message)
\* to errors, whatever the message, the empty string included.
C4_ClassificationDecidesEntry ==
    \A u \in 1..NU : \A i \in 1..(nxt[u] - 1) :
        /\ IsOpen(future[u][i]) => added[u][i] = [open |-> 1, error |-> 0]
        /\ IsClosed(future[u][i]) => added[u][i] = [open |-> 0, error |-> 0]
        /\ IsErrored(future[u][i]) => added[u][i] = [open |-> 0, error |-> 1]

\* The in-order entries of the first n probes of unit u, from their futures.
RECURSIVE OpenUpTo(_, _)
OpenUpTo(u, n) ==
    IF n = 0 THEN << >>
    ELSE OpenUpTo(u, n - 1)
         \o (IF IsOpen(future[u][n]) THEN << Chunk(u)[n] >> ELSE << >>)

RECURSIVE ErrorsUpTo(_, _)
ErrorsUpTo(u, n) ==
    IF n = 0 THEN << >>
    ELSE ErrorsUpTo(u, n - 1)
         \o (IF future[u][n].raised THEN << << Chunk(u)[n], future[u][n].exc >> >>
             ELSE IF IsErrored(future[u][n]) /\ future[u][n].val[2] /= ""
                  THEN << << Chunk(u)[n], future[u][n].val[2] >> >>
             ELSE << >>)

\* C5: a probe whose worker raised gets exactly one error entry (port, message)
\* and no open entry; the loop goes on, so a returned batch has retrieved every
\* probe; and the entries of the sibling ports, before and after it, are all in
\* the lists.
C5_RetrievalFaultIsolated ==
    \A u \in 1..NU :
        (\E i \in 1..(nxt[u] - 1) : future[u][i].raised) =>
            /\ \A i \in 1..(nxt[u] - 1) :
                    future[u][i].raised => added[u][i] = [open |-> 0, error |-> 1]
            /\ open_ports[u] = OpenUpTo(u, nxt[u] - 1)
            /\ errors[u] = ErrorsUpTo(u, nxt[u] - 1)
            /\ ustate[u] = "returned" => nxt[u] = K(u) + 1

\* A returned batch whose second worker raised with an empty message, between
\* an open port and an errored one.
C5_Witness ==
    /\ NU = 1
    /\ ustate[1] = "returned"
    /\ K(1) = 3
    /\ IsOpen(future[1][1])
    /\ future[1][2].raised
    /\ future[1][2].exc = ""
    /\ IsErrored(future[1][3])
    /\ open_ports[1] = << Chunk(1)[1] >>
    /\ errors[1] = << << Chunk(1)[2], "" >>, << Chunk(1)[3], "unreachable" >> >>

\* --------------------------------------------------------------- scan_network
AllHosts == Range(Hosts(ip_range))

\* The probes of host h and port p that satisfy Test, in the units that returned.
ProbesOf(h, p, Test(_)) ==
    {ui \in {<< u, i >> : u \in 1..NU, i \in 1..Len(ports)} :
        /\ ui[2] <= Len(units[ui[1]][2])
        /\ ustate[ui[1]] = "returned"
        /\ units[ui[1]][1] = h
        /\ units[ui[1]][2][ui[2]] = p
        /\ Test(future[ui[1]][ui[2]])}

\* How often x is listed under host h in dict d.
CountIn(d, h, x) == IF h \in DOMAIN d THEN Count(d[h], x) ELSE 0

\* The probe ended in a fault with message m: scan_port classified it Errored,
\* or its worker raised.
FaultedWith(f, m) == (IsErrored(f) /\ f.val[2] = m) \/ (f.done /\ f.raised /\ f.exc = m)

\* C6: when scan_network has returned and no unit failed, a port is listed under
\* open_ports_dict[h] once per Open probe of (h, port), (port, message) is listed
\* under errors_dict[h] once per probe of (h, port) that ended in a fault with
\* that message, and nothing else is listed.
C6_AggregateComplete ==
    (pc = "done" /\ \A u \in 1..NU : ustate[u] = "returned") =>
        /\ DOMAIN open_ports_dict \subseteq AllHosts
        /\ DOMAIN errors_dict \subseteq AllHosts
        /\ \A h \in AllHosts : \A p \in Range(ports) :
                /\ CountIn(open_ports_dict, h, p) = Cardinality(ProbesOf(h, p, IsOpen))
                /\ \A m \in Messages :
                        CountIn(errors_dict, h, << p, m >>) =
                            Cardinality(ProbesOf(h, p, LAMBDA f : FaultedWith(f, m)))

\* C7: in every state, every key of open_ports_dict is a host of the range and
\* every port listed under it is backed by its own Open probe of that host and
\* that port in a unit already aggregated; and no retrieval ever appended both an
\* open entry and an error entry.
C7_OpenEntriesConfirmed ==
    /\ \A h \in DOMAIN open_ports_dict :
            /\ h \in AllHosts
            /\ \A j \in 1..Len(open_ports_dict[h]) :
                    Count(open_ports_dict[h], open_ports_dict[h][j]) <=
                        Cardinality({ui \in ProbesOf(h, open_ports_dict[h][j], IsOpen) :
                                        ui[1] < aidx})
    /\ \A u \in 1..NU : \A i \in 1..K(u) : added[u][i].open + added[u][i].error <= 1

\* Two hosts whose open ports differ, scanned by two worker processes: port 1 is
\* open on the first host only, port 2 on the second only.
C7_Witness ==
    /\ num_processes = 2
    /\ DOMAIN open_ports_dict = {"10.0.0.1", "10.0.0.2"}
    /\ open_ports_dict["10.0.0.1"] = << 1 >>
    /\ open_ports_dict["10.0.0.2"] = << 2 >>
    /\ "10.0.0.1" \in DOMAIN errors_dict

\* What the aggregation of the first n units must have put under host h: the
\* lists of the units of h that returned, in submission order.
ExpectedList(lists, h, n) ==
    Concat([u \in 1..n |->
        IF units[u][1] = h /\ ustate[u] = "returned" THEN lists[u] ELSE << >>])

ExpectedDict(lists, n) ==
    [h \in {g \in AllHosts : ExpectedList(lists, g, n) /= << >>} |->
        ExpectedList(lists, h, n)]

\* C8: once a unit has failed, the scan is not aborted and both dicts hold
\* exactly the lists of the aggregated units that returned (the failed unit
\* adds nothing and takes nothing away); and scan_network returns only with
\* every unit run and passed by the aggregation loop.
C8_UnitFaultIsolated ==
    (\E u \in 1..NU : ustate[u] = "failed") =>
        /\ pc \in {"loop", "done"}
        /\ open_ports_dict = ExpectedDict(open_ports, aidx - 1)
        /\ errors_dict = ExpectedDict(errors, aidx - 1)
        /\ pc = "done" =>
                /\ aidx = NU + 1
                /\ \A u \in 1..NU : ustate[u] \in {"returned", "failed"}

\* A finished scan of two hosts and chunks [1], [2], []: the second unit of the
\* first host failed, the units before and after it delivered their open ports.
C8_Witness ==
    /\ pc = "done"
    /\ NU = 6
    /\ ustate[2] = "failed"
    /\ DOMAIN open_ports_dict = {"10.0.0.1", "10.0.0.2"}
    /\ open_ports_dict["10.0.0.1"] = << 1 >>
    /\ open_ports_dict["10.0.0.2"] = << 1, 2 >>

\* C9: in the state where scan_network returns, every unit has returned or
\* failed and no probe is queued or in flight.
C9_ReturnsAfterAllUnits ==
    pc = "done" =>
        \A u \in 1..NU :
            /\ ustate[u] \in {"returned", "failed"}
            /\ \A i \in 1..K(u) : pstate[u][i] \in {"done", "unsubmitted"}

\* A finished scan of four units through one worker process, the first of which
\* failed after its first probe had run.
C9_Witness ==
    /\ pc = "done"
    /\ num_processes = 1
    /\ NU = 4
    /\ ustate[1] = "failed"
    /\ pstate[1] = << "done", "unsubmitted" >>
    /\ ustate[3] = "returned"
    /\ pstate[3] = << "done", "done" >>

\* The entry scan_ports records for a probe of port p, if any.
RecordsError(f, p, e) ==
    \/ f.done /\ f.raised /\ e = << p, f.exc >>
    \/ IsErrored(f) /\ f.val[2] /= "" /\ e = << p, f.val[2] >>

\* C10: the returned dicts are fixed, as multisets per host, by the units, the
\* probe outcomes and the set of failed units alone: whatever the size of the
\* outer pool and the interleaving, a host is a key iff one of its probes
\* contributed, and each port and each error is listed once per contributing
\* probe.
C10_ContentsIndependentOfPool ==
    pc = "done" =>
        /\ DOMAIN open_ports_dict =
                {h \in AllHosts : \E p \in Range(ports) : ProbesOf(h, p, IsOpen) /= {}}
        /\ DOMAIN errors_dict =
                {h \in AllHosts : \E p \in Range(ports) : \E m \in Messages :
                    ProbesOf(h, p, LAMBDA f : RecordsError(f, p, << p, m >>)) /= {}}
        /\ \A h \in AllHosts : \A p \in Range(ports) :
                /\ CountIn(open_ports_dict, h, p) = Cardinality(ProbesOf(h, p, IsOpen))
                /\ \A m \in Messages :
                        CountIn(errors_dict, h, << p, m >>) =
                            Cardinality(ProbesOf(h, p,
                                LAMBDA f : RecordsError(f, p, << p, m >>)))
        /\ \A h \in DOMAIN open_ports_dict :
                Len(open_ports_dict[h]) =
                    Cardinality(UNION {ProbesOf(h, p, IsOpen) : p \in Range(ports)})
        /\ \A h \in DOMAIN errors_dict :
                Len(errors_dict[h]) =
                    Cardinality(UNION {ProbesOf(h, p,
                        LAMBDA f : \E m \in Messages : RecordsError(f, p, << p, m >>)) :
                            p \in Range(ports)})

\* A finished scan through two worker processes in which both hosts have open
\* ports and errors, over two chunks each.
C10_Witness ==
    /\ pc = "done"
    /\ num_processes = 2
    /\ NU = 6
    /\ DOMAIN open_ports_dict = {"10.0.0.1", "10.0.0.2"}
    /\ DOMAIN errors_dict = {"10.0.0.1", "10.0.0.2"}

\* ------------------------------------------------------------ setup and pools
\* No unit, no probe and no dict exists.
NothingDispatched ==
    /\ units = << >>
    /\ ustate = << >>
    /\ pstate = << >>
    /\ future = << >>
    /\ sockets = << >>
    /\ completed = << >>
    /\ open_ports_dict = EmptyDict
    /\ errors_dict = EmptyDict

\* C11: with a range ip_network rejects, no unit is ever submitted, no probe is
\* run, scan_network never returns a map, and main logs the fault once and
\* stops there.
C11_InvalidRangeStopsScan ==
    ip_range \in BadRanges =>
        /\ NothingDispatched
        /\ pc \in {"main", "call", "error"}
        /\ reported = (IF pc = "error" THEN 1 ELSE 0)
        /\ pc = "error" => ~ENABLED Next

\* The chunks were made, then scan_network failed on the range: main has logged
\* one error.
C11_Witness ==
    /\ ip_range \in BadRanges
    /\ pc = "error"
    /\ reported = 1
    /\ Len(port_ranges) = 3
    /\ NothingDispatched

\* All probes in flight, over all units.
AllBusyProbes == {ui \in {<< u, i >> : u \in 1..NU, i \in 1..Len(ports)} :
                    ui[2] <= Len(pstate[ui[1]]) /\ pstate[ui[1]][ui[2]] = "running"}

\* C12: at every moment at most num_processes units are in flight, each unit has
\* at most max_workers probes in flight, and at most num_processes * max_workers
\* probes are in flight overall.
C12_PoolsBounded ==
    /\ Cardinality({u \in 1..NU : ustate[u] \in {"running", "raising"}}) <= num_processes
    /\ \A u \in 1..NU :
            Cardinality({i \in 1..Len(pstate[u]) : pstate[u][i] = "running"}) <= max_workers
    /\ Cardinality(AllBusyProbes) <= num_processes * max_workers

\* Both pools full: two of two processes busy, each with two of two threads
\* busy, and a unit still waiting in the queue.
C12_Witness ==
    /\ num_processes = 2
    /\ max_workers = 2
    /\ Cardinality(BusyUnits) = 2
    /\ Cardinality(AllBusyProbes) = 4
    /\ \E u \in 1..NU : ustate[u] = "queued"

\* C16: every probe in flight holds exactly one open socket and a probe that has
\* ended holds none, whatever its outcome: the open sockets of a unit are never
\* more than its probes in flight, and none is open once scan_network returned.
C16_SocketsClosed ==
    /\ \A u \in 1..NU :
            /\ sockets[u] = Cardinality({i \in 1..Len(pstate[u]) : pstate[u][i] = "running"})
            /\ ustate[u] \in {"returned", "failed"} => sockets[u] = 0
    /\ pc = "done" => \A u \in 1..NU : sockets[u] = 0

\* A finished scan that went through every path of scan_port: an Open probe,
\* a Closed one and an Errored one, and no socket left.
C16_Witness ==
    /\ pc = "done"
    /\ NU = 6
    /\ IsOpen(future[1][1])
    /\ IsClosed(future[2][1])
    /\ IsErrored(future[4][1])
    /\ \A u \in 1..NU : sockets[u] = 0

\* C20: with an empty port list divide_ports never returns chunks: main stays
\* before it or ends in its except clause with one logged error; nothing is
\* dispatched and no probe is run.
C20_EmptyPortListStopsMain ==
    ports = << >> =>
        /\ pc \in {"main", "error"}
        /\ port_ranges = << >>
        /\ NothingDispatched
        /\ reported = (IF pc = "error" THEN 1 ELSE 0)
        /\ pc = "error" => ~ENABLED Next

\* The range "2:1" on a valid network: main has logged the division by zero.
C20_Witness ==
    /\ ports = PortRange(2, 1)
    /\ ip_range \in IpRanges
    /\ pc = "error"
    /\ reported = 1
    /\ NothingDispatched

\* ------------------------------------------------------- order and ownership
\* The open ports among the probes at the positions `order` of unit u, in that
\* order.
RECURSIVE OpenInOrder(_, _)
OpenInOrder(u, order) ==
    IF order = << >> THEN << >>
    ELSE (IF IsOpen(future[u][Head(order)]) THEN << Chunk(u)[Head(order)] >> ELSE << >>)
         \o OpenInOrder(u, Tail(order))

\* The error entry scan_ports keeps for probe i of unit u, as a list of 0 or 1.
ErrorEntry(u, i) ==
    IF future[u][i].raised THEN << << Chunk(u)[i], future[u][i].exc >> >>
    ELSE IF IsErrored(future[u][i]) /\ future[u][i].val[2] /= ""
         THEN << << Chunk(u)[i], future[u][i].val[2] >> >>
    ELSE << >>

\* The error entries of the probes at the positions `order` of unit u, in that
\* order.
RECURSIVE ErrorsInOrder(_, _)
ErrorsInOrder(u, order) ==
    IF order = << >> THEN << >>
    ELSE ErrorEntry(u, Head(order)) \o ErrorsInOrder(u, Tail(order))

\* C13 as stated: the lists a batch returns hold the open ports, and the error
\* entries, in the order in which the probes completed.
C13_ArrivalOrder ==
    \A u \in 1..NU :
        ustate[u] = "returned" =>
            /\ open_ports[u] = OpenInOrder(u, completed[u])
            /\ errors[u] = ErrorsInOrder(u, completed[u])

\* C13, amended: scan_ports collects in submission order. At every moment its
\* lists hold the entries of the probes retrieved so far in port-input order,
\* whatever the order in which the probes completed, and a returned batch has
\* retrieved every probe.
C13_SubmissionOrder ==
    \A u \in 1..NU :
        /\ open_ports[u] = OpenInOrder(u, [i \in 1..(nxt[u] - 1) |-> i])
        /\ errors[u] = ErrorsInOrder(u, [i \in 1..(nxt[u] - 1) |-> i])
        /\ ustate[u] = "returned" => nxt[u] = K(u) + 1

\* A returned batch over ports 1, 2, both open, whose second probe completed
\* before the first: the list is in input order.
C13_Witness ==
    /\ NU = 1
    /\ ustate[1] = "returned"
    /\ Chunk(1) = << 1, 2 >>
    /\ completed[1] = << 2, 1 >>
    /\ IsOpen(future[1][1])
    /\ IsOpen(future[1][2])
    /\ open_ports[1] = << 1, 2 >>

\* C14: the two dicts change only in a pass of scan_network's loop over the
\* returned unit at the loop's position, which changes no unit and no probe and
\* touches the entry of that unit's host alone; the local lists of a unit
\* change only in a pass of that unit's own retrieval loop, which changes no
\* other unit's lists and neither dict.
C14_SingleWriter ==
    [][ /\ (open_ports_dict' /= open_ports_dict \/ errors_dict' /= errors_dict) =>
            /\ pc = "loop"
            /\ aidx' = aidx + 1
            /\ ustate[aidx] = "returned"
            /\ << ustate, pstate, future, nxt, open_ports, errors >>'
                    = << ustate, pstate, future, nxt, open_ports, errors >>
            /\ \A h \in DOMAIN open_ports_dict' \ {units[aidx][1]} :
                    h \in DOMAIN open_ports_dict /\ open_ports_dict'[h] = open_ports_dict[h]
            /\ \A h \in DOMAIN errors_dict' \ {units[aidx][1]} :
                    h \in DOMAIN errors_dict /\ errors_dict'[h] = errors_dict[h]
        /\ \A u \in DOMAIN open_ports :
            (open_ports'[u] /= open_ports[u] \/ errors'[u] /= errors[u]) =>
                /\ ustate[u] = "running"
                /\ nxt'[u] = nxt[u] + 1
                /\ \A v \in DOMAIN open_ports \ {u} :
                        open_ports'[v] = open_ports[v] /\ errors'[v] = errors[v]
                /\ open_ports_dict' = open_ports_dict
                /\ errors_dict' = errors_dict
      ]_vars

\* Two units run side by side, each with an entry in its own list, while the
\* loop has already filed the first unit's open port.
C14_Witness ==
    /\ pc = "loop"
    /\ NU = 6
    /\ aidx = 2
    /\ open_ports_dict = [h \in {"10.0.0.1"} |-> << 1 >>]
    /\ ustate[2] = "running"
    /\ ustate[4] = "running"
    /\ open_ports[2] = << 2 >>
    /\ errors[4] = << << 1, "unreachable" >> >>

\* What the aggregation of the first n units puts under host h when the units
\* with an empty chunk are left out.
ListWithoutEmpty(lists, h, n) ==
    Concat([u \in 1..n |->
        IF units[u][1] = h /\ ustate[u] = "returned" /\ units[u][2] /= << >>
        THEN lists[u] ELSE << >>])

DictWithoutEmpty(lists, n) ==
    [h \in {g \in AllHosts : ListWithoutEmpty(lists, g, n) /= << >>} |->
        ListWithoutEmpty(lists, h, n)]

\* C17: a unit with an empty chunk has no probe, never fails and keeps both its
\* lists empty; and at every position of the aggregation loop, the return
\* included, both dicts are what the units with a non-empty chunk alone give.
C17_EmptyChunkNoOp ==
    /\ \A u \in 1..NU :
            units[u][2] = << >> =>
                /\ pstate[u] = << >>
                /\ future[u] = << >>
                /\ completed[u] = << >>
                /\ ustate[u] \in {"queued", "running", "returned"}
                /\ open_ports[u] = << >>
                /\ errors[u] = << >>
    /\ pc \in {"loop", "done"} =>
            /\ open_ports_dict = DictWithoutEmpty(open_ports, aidx - 1)
            /\ errors_dict = DictWithoutEmpty(errors, aidx - 1)

\* A finished scan over the chunks [1, 2], []: the unit of each host's trailing
\* empty chunk returned, and the dicts hold what the other units found.
C17_Witness ==
    /\ pc = "done"
    /\ port_ranges = << << 1, 2 >>, << >> >>
    /\ NU = 4
    /\ ustate[2] = "returned"
    /\ ustate[4] = "returned"
    /\ open_ports_dict = [h \in {"10.0.0.1"} |-> << 1, 2 >>]
    /\ errors_dict = [h \in {"10.0.0.2"} |-> << << 2, "unreachable" >> >>]

\* The open ports of host h in the order of the units and, within a unit, of
\* its chunk.
OrderedOpen(h) ==
    Concat([u \in 1..NU |->
        IF units[u][1] = h THEN OpenInOrder(u, [i \in 1..K(u) |-> i]) ELSE << >>])

\* The error entries of host h in the same order.
OrderedErrors(h) ==
    Concat([u \in 1..NU |->
        IF units[u][1] = h THEN ErrorsInOrder(u, [i \in 1..K(u) |-> i]) ELSE << >>])

\* The list under h, empty when h is no key.
Entry(d, h) == IF h \in DOMAIN d THEN d[h] ELSE << >>

\* C18: when scan_network has returned and no unit failed, the list under each
\* host is the list of its open ports in the order of port_ranges and, within a
\* chunk, in chunk order, whatever the order in which probes and units
\* completed; with the chunks of divide_ports that is the order of the port
\* list, here ascending. The errors are ordered the same way.
C18_ReturnedOrderFixed ==
    (pc = "done" /\ \A u \in 1..NU : ustate[u] = "returned") =>
        \A h \in AllHosts :
            /\ Entry(open_ports_dict, h) = OrderedOpen(h)
            /\ Entry(errors_dict, h) = OrderedErrors(h)
            /\ \A i, j \in 1..Len(Entry(open_ports_dict, h)) :
                    i < j => open_ports_dict[h][i] < open_ports_dict[h][j]
            /\ \A i, j \in 1..Len(Entry(errors_dict, h)) :
                    i < j => errors_dict[h][i][1] < errors_dict[h][j][1]

\* A finished scan on two processes over the chunks [1, 2], []: the first host
\* has both ports open, the second an error on each, and for both hosts the
\* probe of port 2 completed before that of port 1.
C18_Witness ==
    /\ pc = "done"
    /\ num_processes = 2
    /\ \A u \in 1..NU : ustate[u] = "returned"
    /\ NU = 4
    /\ completed[1] = << 2, 1 >>
    /\ completed[3] = << 2, 1 >>
    /\ open_ports_dict = [h \in {"10.0.0.1"} |-> << 1, 2 >>]
    /\ DOMAIN errors_dict = {"10.0.0.2"}
    /\ Len(errors_dict["10.0.0.2"]) = 2

\* C19: in every state every key of either dict maps to a non-empty list and
\* has a returned unit of that host, already passed by the loop, whose own list
\* is non-empty; and in the returned dicts a host whose probes were all Closed
\* is a key of neither.
C19_NoEmptyEntries ==
    /\ \A h \in DOMAIN open_ports_dict :
            /\ open_ports_dict[h] /= << >>
            /\ \E u \in 1..(aidx - 1) :
                    units[u][1] = h /\ ustate[u] = "returned" /\ open_ports[u] /= << >>
    /\ \A h \in DOMAIN errors_dict :
            /\ errors_dict[h] /= << >>
            /\ \E u \in 1..(aidx - 1) :
                    units[u][1] = h /\ ustate[u] = "returned" /\ errors[u] /= << >>
    /\ pc = "done" =>
            \A h \in AllHosts :
                (\A u \in 1..NU : units[u][1] = h =>
                    \A i \in 1..K(u) : IsClosed(future[u][i]))
                => h \notin DOMAIN open_ports_dict \cup DOMAIN errors_dict

\* A finished scan of two hosts: every port of the first is closed and it is a
\* key of neither dict; the second has an open port and an error.
C19_Witness ==
    /\ pc = "done"
    /\ NU = 6
    /\ \A u \in 1..3 : \A i \in 1..K(u) : IsClosed(future[u][i])
    /\ open_ports_dict = [h \in {"10.0.0.2"} |-> << 1 >>]
    /\ errors_dict = [h \in {"10.0.0.2"} |-> << << 2, "unreachable" >> >>]

\* ------------------------------------------------------------------ progress
\* C15: under fair scheduling every scan that has submitted its units returns:
\* by then no unit and no submitted probe is left queued or running (each was
\* started and has ended) and both dicts are handed back.
C15_EveryScanReturns ==
    (pc = "loop") ~>
        /\ pc = "done"
        /\ \A u \in 1..NU :
                /\ ustate[u] \in {"returned", "failed"}
                /\ \A i \in 1..K(u) : pstate[u][i] \in {"done", "unsubmitted"}

\* A scan over the chunks [1, 2], [] on one process with one thread has
\* returned: the second unit had to wait for the process, the second probe for
\* the thread, and both ran.
C15_Witness ==
    /\ pc = "done"
    /\ num_processes = 1
    /\ max_workers = 1
    /\ NU = 2
    /\ K(1) = 2
    /\ \A u \in 1..NU : ustate[u] = "returned" /\ Len(completed[u]) = K(u)

====
